---- MODULE Spec2Model ----
(***************************************************************************)
(* Polymarket ingestion pipeline: fetch -> filter -> normalize -> store,   *)
(* and the run history the pipeline monitor reads.                         *)
(*                                                                         *)
(* Python values are tagged records [t |-> tag, v |-> value]; a string is  *)
(* a sequence of one-character strings, so that lower(), the keyword       *)
(* substring test, float() and json.loads() are computed, not assumed.     *)
(* Prices and volumes are scaled to integers.                              *)
(***************************************************************************)
EXTENDS Integers, Sequences, FiniteSets, TLC

VARIABLES
    pc,            \* where the pipeline process stands: idle, fetch, fetched, store, commit
    cycles,        \* number of fetch_and_store_markets calls started
    returns,       \* the values fetch_and_store_markets returned, in call order
    attempt,       \* fetch_markets: the loop variable
    events,        \* fetch_markets: requests issued and sleeps taken by the current call
    fetchResult,   \* fetch_markets: [how |-> "return"/"raise"/"none", value |-> payloads]
    batch,         \* store_markets: its argument (market_data_list)
    idx,           \* store_markets: position of the loop in the batch
    stored_count,  \* store_markets: the counter
    failed,        \* store_markets: the batch positions whose iteration raised
    session,       \* store_markets: the ORM session (transaction view, pending inserts, state)
    storeResult,   \* store_markets: how the last call ended and what it returned
    dbBefore,      \* the committed table when the last store_markets call began
    lastBatch,     \* the argument of the last store_markets call that committed
    repeated,      \* is the running store_markets call given that same argument again
    db,            \* the committed markets table
    log,           \* logs/data_pipeline.log, one entry per line
    now,           \* datetime.utcnow() as the running cycle reads it
    faults,        \* failures the network and the database have produced so far
    clock,         \* the wall clock the scheduler reads, in minutes
    sched,         \* the process running schedule_pipeline: [pc, next_run, wake, phase,
                   \*   result of its last job, has a stop signal reached it]
    demand,        \* the process running one cycle on demand: [pc, phase]
    wall,          \* minutes gone by since the pipeline last read its clock
    mon,           \* the process running monitor.py: its position and what it has read
    filterArg,     \* filter_crypto_markets: its argument (markets)
    filtered,      \* filter_crypto_markets: what it returned
    extractArg,    \* extract_market_data: its argument (market)
    extracted      \* extract_market_data: what it returned

\* the state of one cycle and of the store it writes
pipelineVars == <<pc, cycles, returns, attempt, events, fetchResult, batch, idx,
                  stored_count, failed, session, storeResult, dbBefore, lastBatch, repeated,
                  db, log, now, faults>>
\* the same without the table and the log file
processVars == <<pc, cycles, returns, attempt, events, fetchResult, batch, idx,
                 stored_count, failed, session, storeResult, dbBefore, lastBatch, repeated,
                 now, faults>>
\* the processes that run cycles, seen from outside
schedVars == <<clock, sched, demand>>

\* the monitor process and the clock it reads
monVars == <<wall, mon>>
\* one call of filter_crypto_markets, one of extract_market_data, each on its own
filterVars == <<filterArg, filtered, extractArg, extracted>>

vars == <<pipelineVars, schedVars, monVars, filterVars>>

(* ------------------------------ bounds --------------------------------- *)
MaxCycles == 2
MaxFaults == 3
MaxClock == 32
\* fatal cycles in a run history the monitor is given
MaxFailedCycles == 2
\* successful cycles at the end of a run history the monitor is given
MaxQuietCycles == 13
\* payloads in an argument of filter_crypto_markets called on its own
MaxMarkets == 2

(* --------------------------- Python values ----------------------------- *)
Num(n) == [t |-> "num", v |-> n]
Str(s) == [t |-> "str", v |-> s]
Bool(b) == [t |-> "bool", v |-> b]
List(xs) == [t |-> "list", v |-> xs]
NoneV == [t |-> "none", v |-> 0]
Absent == [t |-> "absent", v |-> 0]       \* a key the dict does not have

\* dict.get(key, default)
Get(d, key, default) == IF d[key].t = "absent" THEN default ELSE d[key]

\* Python truthiness of a value
Truthy(x) ==
    CASE x.t = "none" -> FALSE
      [] x.t = "absent" -> FALSE
      [] x.t = "num" -> x.v # 0
      [] x.t = "bool" -> x.v
      [] x.t = "str" -> Len(x.v) > 0
      [] x.t = "list" -> Len(x.v) > 0
      [] OTHER -> TRUE

Digits == <<"0", "1", "2", "3", "4", "5", "6", "7", "8", "9">>
IsDigit(c) == \E i \in 1..10 : Digits[i] = c
DigitVal(c) == (CHOOSE i \in 1..10 : Digits[i] = c) - 1
AllDigits(s) == Len(s) > 0 /\ \A i \in 1..Len(s) : IsDigit(s[i])

RECURSIVE ParseNat(_)
ParseNat(s) ==
    IF Len(s) = 0 THEN 0
    ELSE 10 * ParseNat(SubSeq(s, 1, Len(s) - 1)) + DigitVal(s[Len(s)])

\* float(x): [ok |-> TRUE, v |-> number] or a ValueError / TypeError
Float(x) ==
    CASE x.t = "num" -> [ok |-> TRUE, v |-> x.v]
      [] x.t = "bool" -> [ok |-> TRUE, v |-> IF x.v THEN 1 ELSE 0]
      [] x.t = "str" -> IF AllDigits(x.v) THEN [ok |-> TRUE, v |-> ParseNat(x.v)]
                        ELSE [ok |-> FALSE, v |-> 0]
      [] OTHER -> [ok |-> FALSE, v |-> 0]

Upper == <<"A", "B", "C", "D", "E", "F", "G", "H", "I", "J", "K", "L", "M",
           "N", "O", "P", "Q", "R", "S", "T", "U", "V", "W", "X", "Y", "Z">>
Lowercase == <<"a", "b", "c", "d", "e", "f", "g", "h", "i", "j", "k", "l", "m",
               "n", "o", "p", "q", "r", "s", "t", "u", "v", "w", "x", "y", "z">>
LowerChar(c) ==
    IF \E i \in 1..26 : Upper[i] = c
    THEN Lowercase[CHOOSE i \in 1..26 : Upper[i] = c]
    ELSE c
\* str.lower()
Lower(s) == [i \in 1..Len(s) |-> LowerChar(s[i])]

\* the Python test `k in s` on two strings
Contains(s, k) ==
    \E i \in 0..(Len(s) - Len(k)) : SubSeq(s, i + 1, i + Len(k)) = k

(* ------------------------------ json.loads ----------------------------- *)
Quote == "\""

RECURSIVE SplitComma(_)
\* the pieces of s between its commas
SplitComma(s) ==
    IF \E i \in 1..Len(s) : s[i] = ","
    THEN LET i == CHOOSE j \in 1..Len(s) :
                      s[j] = "," /\ \A k \in 1..(j - 1) : s[k] # ","
         IN <<SubSeq(s, 1, i - 1)>> \o SplitComma(SubSeq(s, i + 1, Len(s)))
    ELSE <<s>>

\* one JSON scalar: a quoted string, a number or null
JsonScalar(s) ==
    IF Len(s) >= 2 /\ s[1] = Quote /\ s[Len(s)] = Quote
       /\ \A i \in 2..(Len(s) - 1) : s[i] # Quote
    THEN [ok |-> TRUE, v |-> Str(SubSeq(s, 2, Len(s) - 1))]
    ELSE IF AllDigits(s) THEN [ok |-> TRUE, v |-> Num(ParseNat(s))]
    ELSE IF s = <<"n", "u", "l", "l">> THEN [ok |-> TRUE, v |-> NoneV]
    ELSE [ok |-> FALSE, v |-> NoneV]

\* json.loads(s) for a text that is a flat array or a scalar; ok = FALSE is JSONDecodeError
JsonLoads(s) ==
    IF Len(s) >= 2 /\ s[1] = "[" /\ s[Len(s)] = "]"
    THEN LET inner == SubSeq(s, 2, Len(s) - 1)
             parts == IF Len(inner) = 0 THEN <<>> ELSE SplitComma(inner)
         IN IF \A i \in 1..Len(parts) : JsonScalar(parts[i]).ok
            THEN [ok |-> TRUE, v |-> List([i \in 1..Len(parts) |-> JsonScalar(parts[i]).v])]
            ELSE [ok |-> FALSE, v |-> NoneV]
    ELSE JsonScalar(s)

(* --------------------------- PolymarketFetcher ------------------------- *)
\* mutant: one retry too many
MAX_RETRIES_OffByOne == 3 + 1

MAX_RETRIES == 3

CRYPTO_KEYWORDS ==
    << <<"b", "i", "t", "c", "o", "i", "n">>, <<"b", "t", "c">>,
       <<"e", "t", "h", "e", "r", "e", "u", "m">>, <<"e", "t", "h">>,
       <<"c", "r", "y", "p", "t", "o">>,
       <<"s", "o", "l", "a", "n", "a">>, <<"s", "o", "l">>,
       <<"d", "o", "g", "e", "c", "o", "i", "n">>, <<"d", "o", "g", "e">>,
       <<"x", "r", "p">>, <<"r", "i", "p", "p", "l", "e">>,
       <<"c", "a", "r", "d", "a", "n", "o">>, <<"a", "d", "a">>,
       <<"p", "o", "l", "y", "g", "o", "n">>, <<"m", "a", "t", "i", "c">>,
       <<"a", "r", "b", "i", "t", "r", "u", "m">> >>

\* the test of filter_crypto_markets on one market whose question is a string
IsCrypto(market) ==
    LET question == Lower(Get(market, "question", Str(<<>>)).v)
    IN \E i \in 1..Len(CRYPTO_KEYWORDS) : Contains(question, CRYPTO_KEYWORDS[i])

\* a filter that returns the matching markets last first
RECURSIVE Reversed(_)
Reversed(xs) == IF Len(xs) = 0 THEN <<>> ELSE Append(Reversed(Tail(xs)), Head(xs))
filter_crypto_markets_reversed(markets) ==
    IF \E i \in 1..Len(markets) : Get(markets[i], "question", Str(<<>>)).t # "str"
    THEN [ok |-> FALSE, v |-> <<>>]
    ELSE [ok |-> TRUE, v |-> Reversed(SelectSeq(markets, IsCrypto))]

\* filter_crypto_markets: ok = FALSE when .lower() is called on a question that is no string
filter_crypto_markets(markets) ==
    IF \E i \in 1..Len(markets) : Get(markets[i], "question", Str(<<>>)).t # "str"
    THEN [ok |-> FALSE, v |-> <<>>]
    ELSE [ok |-> TRUE, v |-> SelectSeq(markets, IsCrypto)]

\* json.loads whose failure is not caught: the text stays in outcome_prices
ParsedPricesKeepsText(market) ==
    LET raw == Get(market, "outcomePrices", List(<<>>))
    IN IF raw.t = "str" /\ JsonLoads(raw.v).ok THEN JsonLoads(raw.v).v ELSE raw

\* the outcomePrices value after the optional json.loads
ParsedPrices(market) ==
    LET raw == Get(market, "outcomePrices", List(<<>>))
    IN IF raw.t = "str"
       THEN IF JsonLoads(raw.v).ok THEN JsonLoads(raw.v).v ELSE List(<<>>)
       ELSE raw

\* float(outcome_prices[i]) if outcome_prices and len(outcome_prices) > i else None
PriceAt(prices, i) ==
    IF ~Truthy(prices) THEN [ok |-> TRUE, v |-> NoneV]
    ELSE IF prices.t \notin {"list", "str"} THEN [ok |-> FALSE, v |-> NoneV]   \* len() of a number
    ELSE IF Len(prices.v) > i
         THEN LET item == IF prices.t = "list" THEN prices.v[i + 1]
                          ELSE Str(<<prices.v[i + 1]>>)
              IN IF Float(item).ok THEN [ok |-> TRUE, v |-> Num(Float(item).v)]
                 ELSE [ok |-> FALSE, v |-> NoneV]
         ELSE [ok |-> TRUE, v |-> NoneV]

\* float(market.get(key, 0)) if market.get(key) else 0
VolumeOf(market, key) ==
    IF Truthy(Get(market, key, NoneV))
    THEN IF Float(Get(market, key, Num(0))).ok
         THEN [ok |-> TRUE, v |-> Num(Float(Get(market, key, Num(0))).v)]
         ELSE [ok |-> FALSE, v |-> NoneV]
    ELSE [ok |-> TRUE, v |-> Num(0)]

\* extract_market_data: the market_data dict, or None when anything inside raised
extract_market_data(market) ==
    LET prices == ParsedPrices(market)
        yes == PriceAt(prices, 0)
        no == PriceAt(prices, 1)
        v24 == VolumeOf(market, "volume24h")
        vol == VolumeOf(market, "volume")
    IN IF yes.ok /\ no.ok /\ v24.ok /\ vol.ok
       THEN [t |-> "dict",
             v |-> [market_id |-> Get(market, "id", NoneV),
                    question |-> Get(market, "question", Str(<<"U", "n", "k", "n", "o", "w", "n">>)),
                    description |-> Get(market, "description", NoneV),
                    yes_price |-> yes.v,
                    no_price |-> no.v,
                    volume_24h |-> v24.v,
                    volume |-> vol.v,
                    active |-> Get(market, "active", Bool(TRUE)),
                    resolved |-> Get(market, "resolved", Bool(FALSE)),
                    outcome |-> Get(market, "outcome", NoneV),
                    end_date |-> Get(market, "endDate", NoneV)]]
       ELSE NoneV

\* the loop of fetch_and_store_markets that builds market_data_list
RECURSIVE ExtractAll(_)
ExtractAll(markets) ==
    IF Len(markets) = 0 THEN <<>>
    ELSE LET market_data == extract_market_data(Head(markets))
         IN (IF Truthy(market_data) THEN <<market_data>> ELSE <<>>)
            \o ExtractAll(Tail(markets))

(* ------------------------- markets table and session ------------------- *)
\* Column(..., default=...) of Market: an attribute that is None at INSERT takes the default
ColumnDefault(column, value) ==
    IF value.t # "none" THEN value
    ELSE CASE column \in {"volume", "volume_24h"} -> Num(0)
           [] column = "active" -> Bool(TRUE)
           [] column = "resolved" -> Bool(FALSE)
           [] OTHER -> value

\* the next INTEGER PRIMARY KEY of the table
NextPk(rows) ==
    IF rows = {} THEN 1 ELSE 1 + (CHOOSE m \in {r.id : r \in rows} : \A r \in rows : r.id <= m)

\* nullable=False of Market.market_id and Market.question
NotNullViolated(md) == md.market_id.t = "none" \/ md.question.t = "none"

\* unique=True of Market.market_id
UniqueViolated(rows, md) == \E r \in rows : r.market_id = md.market_id

\* mutant: the insert passes the two prices the wrong way round
NewRowSwapsPrices(rows, md, t) ==
    [id |-> NextPk(rows), market_id |-> md.market_id, question |-> md.question,
     description |-> md.description, yes_price |-> md.no_price, no_price |-> md.yes_price,
     volume |-> ColumnDefault("volume", md.volume),
     volume_24h |-> ColumnDefault("volume_24h", md.volume_24h),
     active |-> ColumnDefault("active", md.active),
     resolved |-> ColumnDefault("resolved", md.resolved),
     outcome |-> md.outcome, created_at |-> t, updated_at |-> t]

\* the row an INSERT of Market(**md) makes at time t
NewRow(rows, md, t) ==
    [id |-> NextPk(rows),
     market_id |-> md.market_id,
     question |-> md.question,
     description |-> md.description,
     yes_price |-> md.yes_price,
     no_price |-> md.no_price,
     volume |-> ColumnDefault("volume", md.volume),
     volume_24h |-> ColumnDefault("volume_24h", md.volume_24h),
     active |-> ColumnDefault("active", md.active),
     resolved |-> ColumnDefault("resolved", md.resolved),
     outcome |-> md.outcome,
     created_at |-> t,
     updated_at |-> t]

\* mutant: the flush writes the pending rows over the table instead of into it
FlushOverwrites(rows, pending, t) ==
    [ok |-> \A i \in 1..Len(pending) : ~NotNullViolated(pending[i]),
     rows |-> {[NewRow({}, pending[i], t) EXCEPT !.id = i] : i \in 1..Len(pending)}]

RECURSIVE Flush(_, _, _)
\* session.flush(): the INSERTs of the pending objects, in order; ok = FALSE is IntegrityError
Flush(rows, pending, t) ==
    IF Len(pending) = 0 THEN [ok |-> TRUE, rows |-> rows]
    ELSE IF NotNullViolated(Head(pending)) \/ UniqueViolated(rows, Head(pending))
         THEN [ok |-> FALSE, rows |-> rows]
         ELSE Flush(rows \cup {NewRow(rows, Head(pending), t)}, Tail(pending), t)

\* mutant: the lookup never finds the stored row
LookupNothing(rows, key) == {}

\* session.query(Market).filter_by(market_id=key): the matching rows
Lookup(rows, key) == {r \in rows : key.t # "none" /\ r.market_id = key}

\* .first(): the matching row with the least primary key
First(rs) == CHOOSE r \in rs : \A q \in rs : r.id <= q.id

\* mutant: the update forgets the outcome
UpdateKeysNoOutcome == <<"yes_price", "no_price", "volume_24h", "volume", "active", "resolved">>

\* the keys store_markets reads from market_data, in the order it reads them
UpdateKeys == <<"yes_price", "no_price", "volume_24h", "volume", "active", "resolved", "outcome">>
InsertKeys == <<"market_id", "question", "description", "yes_price", "no_price",
                "volume_24h", "volume", "active", "resolved", "outcome">>

\* how many keys of the sequence are read before market_data[key] raises KeyError
ReadBeforeKeyError(md, keys) ==
    IF \E i \in 1..Len(keys) : md[keys[i]].t = "absent"
    THEN (CHOOSE i \in 1..Len(keys) :
              md[keys[i]].t = "absent" /\ \A j \in 1..(i - 1) : md[keys[j]].t # "absent") - 1
    ELSE Len(keys)

\* mutant: the update stamps the row with the epoch instead of the current time
UpdateRowEpoch(row, md, t) ==
    [c \in DOMAIN row |-> IF c = "updated_at" THEN 0
                          ELSE IF c \in {"yes_price", "no_price", "volume_24h", "volume",
                                         "active", "resolved", "outcome"}
                               THEN md[c] ELSE row[c]]

\* mutant: the update leaves updated_at alone
UpdateRowKeepsStamp(row, md, t) ==
    [c \in DOMAIN row |-> IF c \in {"yes_price", "no_price", "volume_24h", "volume",
                                     "active", "resolved", "outcome"}
                          THEN md[c] ELSE row[c]]

\* the update branch: the assignments made before a KeyError, and updated_at (assigned last,
\* or set by onupdate when an assignment before the KeyError changed the row)
UpdateRow(row, md, t) ==
    LET n == ReadBeforeKeyError(md, UpdateKeys)
        assigned == {UpdateKeys[i] : i \in 1..n}
        r1 == [c \in DOMAIN row |-> IF c \in assigned THEN md[c] ELSE row[c]]
    IN IF n = Len(UpdateKeys) \/ r1 # row THEN [r1 EXCEPT !.updated_at = t] ELSE r1

(* ------------------------------- the log ------------------------------- *)
Line(level, msg) == [level |-> level, msg |-> msg]
Banner == Line("INFO", "====")

(* ------------------------------ API payloads --------------------------- *)
PayloadKeys == {"id", "question", "description", "outcomePrices", "volume24h", "volume",
                "active", "resolved", "outcome", "endDate"}
Blank == [k \in PayloadKeys |-> Absent]

\* {"id": "a", "question": "BTC", "outcomePrices": "[\"6\",\"4\"]", "volume": 5}
P_btc ==
    [Blank EXCEPT !.id = Str(<<"a">>), !.question = Str(<<"B", "T", "C">>),
                  !.outcomePrices = Str(<<"[", Quote, "6", Quote, ",", Quote, "4", Quote, "]">>),
                  !.volume = Num(5)]
\* the same market later: resolved, native price list
P_btc2 ==
    [Blank EXCEPT !.id = Str(<<"a">>), !.question = Str(<<"b", "t", "c">>),
                  !.outcomePrices = List(<<Num(7), Num(3)>>),
                  !.active = Bool(FALSE), !.resolved = Bool(TRUE),
                  !.outcome = Str(<<"Y">>)]
\* outcomePrices is not JSON, "active" is null, an outcome but no "resolved"
P_eth ==
    [Blank EXCEPT !.id = Str(<<"b">>), !.question = Str(<<"E", "t", "h">>),
                  !.outcomePrices = Str(<<"x">>), !.volume24h = Str(<<"1", "2">>),
                  !.active = NoneV, !.outcome = Str(<<"N">>)]
\* no crypto keyword
P_rain ==
    [Blank EXCEPT !.id = Str(<<"c">>), !.question = Str(<<"r", "a", "i", "n">>)]
\* no id
P_noid ==
    [Blank EXCEPT !.question = Str(<<"s", "o", "l">>), !.volume = Num(1)]
\* volume is not a number
P_badvol ==
    [Blank EXCEPT !.id = Str(<<"c">>), !.question = Str(<<"d", "o", "g", "e">>),
                  !.volume = Str(<<"x">>)]

\* the bodies the API answers with
Responses ==
    { <<>>, <<P_rain>>, <<P_badvol>>, <<P_btc, P_btc2>>, <<P_eth, P_noid>>,
      <<P_badvol, P_eth>>, <<P_btc, P_noid, P_eth>>, <<P_btc, P_eth, P_rain>> }

(* ------------------------------ initial state -------------------------- *)
NoSession == [open |-> FALSE, rows |-> {}, pending |-> <<>>, poisoned |-> FALSE]
\* mutant: store_markets returns without closing its session
CloseSessionSkipped(s) == s
\* `finally: session.close()` of store_markets: the session holds nothing any more
CloseSession(s) == NoSession
NoFetch == [how |-> "none", value |-> <<>>]
NoStore == [how |-> "none", value |-> 0, commit |-> "none", env |-> "none"]
\* no process has been started
NotStarted == [pc |-> "off", next_run |-> 0, wake |-> 0, phase |-> "none",
               result |-> "none", signal |-> FALSE]
NotRun == [pc |-> "off", phase |-> "none"]
NotCalled == [how |-> "none", value |-> <<>>]
NotExtracted == [how |-> "none", value |-> NoneV]
NoStats == [total |-> 0, active |-> 0, resolved |-> 0, crypto |-> 0]
NoSummary == [total_fetches |-> 0, successful_fetches |-> 0, failed_fetches |-> 0,
              success_rate |-> Absent]
NoFreshness == [age |-> NoneV, status |-> "none"]
NoSnapshot == [last_update |-> NoneV,
               data_freshness |-> [age_minutes |-> NoneV, status |-> "none"],
               market_stats |-> NoStats, pipeline_performance |-> NoSummary]
\* the monitor has not been run: no local is bound, nothing is printed or written
NoReport == [pc |-> "off", q |-> 0, last_update |-> NoneV,
             freshness |-> NoFreshness, stats |-> NoStats, log_summary |-> NoSummary,
             errors |-> <<>>, label |-> "none", snapshot |-> NoSnapshot]

\* no process is running: nothing is bound, no session is open
NotRunning ==
    /\ pc = "idle"
    /\ cycles = 0
    /\ returns = <<>>
    /\ attempt = 0
    /\ events = <<>>
    /\ fetchResult = NoFetch
    /\ batch = <<>>
    /\ idx = 0
    /\ stored_count = 0
    /\ failed = {}
    /\ session = NoSession
    /\ storeResult = NoStore
    /\ dbBefore = {}
    /\ lastBatch = <<>>
    /\ repeated = FALSE
    /\ faults = 0
    /\ clock = 0
    /\ sched = NotStarted
    /\ demand = NotRun
    /\ mon = NoReport
    /\ filtered = NotCalled
    /\ extracted = NotExtracted

\* a fresh installation: an empty table, no log file, no process running
Init ==
    /\ NotRunning
    /\ filterArg = <<>>
    /\ extractArg = Blank
    /\ db = {}
    /\ log = <<>>
    /\ now = 0
    /\ wall = 0

(* ------------------------------ fetch_markets -------------------------- *)
\* the values of `attempt` the for loop runs through
AttemptRange == 0..(MAX_RETRIES - 1)

\* `if attempt < self.MAX_RETRIES - 1` of the two transient handlers
RetryAllowed(k) == k < MAX_RETRIES - 1

\* mutant: linear instead of exponential backoff
WaitTimeLinear(k) == 2 * k

\* wait_time = 2 ** attempt
WaitTime(k) == 2 ^ k

\* mutant: the last handler lets the error out
ExhaustedHowRaise == "raise"

\* what the handlers do once the retries are used up: return []
ExhaustedHow == "return"

\* what an attempt can raise; "Exception" is anything met by `except Exception`
FailureKinds == {"ConnectionError", "Timeout", "Exception"}

\* mutant: every failure is retried
RetryableAny(kind) == TRUE

\* the failures whose handlers sleep and let the loop go on
Retryable(kind) == kind \in {"ConnectionError", "Timeout"}

\* the lines the handlers of the transient failures write
TransientWarning(kind) ==
    IF kind = "ConnectionError" THEN Line("WARNING", "Connection error on attempt")
    ELSE Line("WARNING", "Timeout on attempt")
RetryLines(kind) ==
    IF kind = "ConnectionError" THEN <<Line("INFO", "Retrying in")>> ELSE <<>>
ExhaustedError(kind) ==
    IF kind = "ConnectionError" THEN Line("ERROR", "Failed to fetch markets after")
    ELSE Line("ERROR", "Failed to fetch markets: timeout after retries")

Request(k, outcome, body) ==
    [kind |-> "request", attempt |-> k, outcome |-> outcome, body |-> body, secs |-> 0]
Sleep(secs) ==
    [kind |-> "sleep", attempt |-> 0, outcome |-> "", body |-> <<>>, secs |-> secs]

\* the statement after an iteration that did not return: next iteration, or fall out of the loop
LoopOn(k) ==
    IF k + 1 \in AttemptRange
    THEN /\ attempt' = k + 1
         /\ pc' = "fetch"
         /\ fetchResult' = fetchResult
    ELSE /\ attempt' = k
         /\ pc' = "fetched"
         /\ fetchResult' = [how |-> "return", value |-> <<>>]

\* an iteration whose request succeeds: return response.json()
AttemptOk ==
    /\ UNCHANGED <<schedVars, monVars, filterVars>>
    /\ pc = "fetch"
    /\ \E body \in Responses :
        /\ fetchResult' = [how |-> "return", value |-> body]
        /\ events' = Append(events, Request(attempt, "ok", body))
    /\ log' = log \o <<Line("INFO", "Fetching markets from Polymarket"),
                       Line("INFO", "Successfully fetched")>>
    /\ pc' = "fetched"
    /\ UNCHANGED <<cycles, returns, attempt, batch, idx, stored_count, failed, session,
                   storeResult, dbBefore, lastBatch, repeated, db, now, faults>>

\* an iteration whose request raises ConnectionError or Timeout
AttemptTransient ==
    /\ UNCHANGED <<schedVars, monVars, filterVars>>
    /\ pc = "fetch"
    /\ faults < MaxFaults
    /\ faults' = faults + 1
    /\ \E kind \in FailureKinds :
        /\ Retryable(kind)
        /\ IF RetryAllowed(attempt)
           THEN /\ events' = events \o <<Request(attempt, kind, <<>>), Sleep(WaitTime(attempt))>>
                /\ log' = log \o <<Line("INFO", "Fetching markets from Polymarket"),
                                   TransientWarning(kind)>> \o RetryLines(kind)
                /\ LoopOn(attempt)
           ELSE /\ events' = Append(events, Request(attempt, kind, <<>>))
                /\ log' = log \o <<Line("INFO", "Fetching markets from Polymarket"),
                                   TransientWarning(kind), ExhaustedError(kind)>>
                /\ attempt' = attempt
                /\ pc' = "fetched"
                /\ fetchResult' = [how |-> ExhaustedHow, value |-> <<>>]
    /\ UNCHANGED <<cycles, returns, batch, idx, stored_count, failed, session,
                   storeResult, dbBefore, lastBatch, repeated, db, now>>

\* an iteration that raises anything else (HTTP status, undecodable body): return []
AttemptOther ==
    /\ UNCHANGED <<schedVars, monVars, filterVars>>
    /\ pc = "fetch"
    /\ faults < MaxFaults
    /\ faults' = faults + 1
    /\ \E kind \in FailureKinds :
        /\ ~Retryable(kind)
        /\ events' = Append(events, Request(attempt, kind, <<>>))
    /\ log' = log \o <<Line("INFO", "Fetching markets from Polymarket"),
                       Line("ERROR", "Unexpected error fetching markets")>>
    /\ attempt' = attempt
    /\ pc' = "fetched"
    /\ fetchResult' = [how |-> "return", value |-> <<>>]
    /\ UNCHANGED <<cycles, returns, batch, idx, stored_count, failed, session,
                   storeResult, dbBefore, lastBatch, repeated, db, now>>

(* ------------------------ fetch_and_store_markets ---------------------- *)
\* the call begins: PolymarketFetcher(), then fetch_markets(limit=100)
StartCycle ==
    /\ UNCHANGED <<schedVars, monVars, filterVars>>
    /\ pc = "idle"
    /\ cycles < MaxCycles
    /\ cycles' = cycles + 1
    /\ pc' = "fetch"
    /\ attempt' = 0
    /\ events' = <<>>
    /\ fetchResult' = NoFetch
    /\ storeResult' = NoStore
    /\ batch' = <<>>
    /\ log' = log \o <<Banner, Line("INFO", "Starting market data fetch...")>>
    /\ now' = now + 1
    /\ repeated' = FALSE
    /\ UNCHANGED <<returns, idx, stored_count, failed, session, dbBefore, lastBatch,
                   db, faults>>

\* return True after the success line
SuccessLines == <<Line("INFO", "Data fetch completed successfully"), Banner>>
\* the handler of `except Exception` at the top of the cycle
FatalLines == <<Line("ERROR", "Fatal error in fetch_and_store_markets"), Banner>>

\* the value fetch_and_store_markets returns once store_markets ended with `how`
CycleValueAfterStore(how) == how = "return"

\* one ERROR line per market extract_market_data returns None for
RECURSIVE ExtractErrors(_)
ExtractErrors(markets) ==
    IF Len(markets) = 0 THEN <<>>
    ELSE (IF Truthy(extract_market_data(Head(markets))) THEN <<>>
          ELSE <<Line("ERROR", "Error extracting data from market")>>)
         \o ExtractErrors(Tail(markets))

\* mutant: the early returns are never taken
IsEmptyNever(xs) == FALSE

\* `if not markets`, `if not crypto_markets`: the list is empty
IsEmpty(xs) == Len(xs) = 0

\* from the return of fetch_markets to the call of store_markets (or to the early return)
ProcessFetched ==
    /\ UNCHANGED <<schedVars, monVars, filterVars>>
    /\ pc = "fetched"
    /\ LET markets == fetchResult.value
           crypto == filter_crypto_markets(markets)
           market_data_list == ExtractAll(crypto.v)
           ended(value, lines) ==
               /\ returns' = Append(returns, value)
               /\ log' = log \o lines
               /\ pc' = "idle"
               /\ UNCHANGED <<batch, idx, stored_count, failed, session, dbBefore, repeated>>
       IN  IF fetchResult.how = "raise"
           THEN ended(FALSE, FatalLines) /\ storeResult' = storeResult
           ELSE IF IsEmpty(markets)
           THEN /\ ended(FALSE, <<Line("WARNING", "No markets fetched from Polymarket")>>)
                /\ storeResult' = storeResult
           ELSE IF ~crypto.ok
           THEN ended(FALSE, FatalLines) /\ storeResult' = storeResult
           ELSE IF IsEmpty(crypto.v)
           THEN /\ ended(FALSE, <<Line("INFO", "Filtered"),
                                  Line("WARNING", "No crypto markets found")>>)
                /\ storeResult' = storeResult
           ELSE IF Len(market_data_list) = 0
           THEN \* store_markets([]) returns 0 without a session
                /\ ended(TRUE, <<Line("INFO", "Filtered")>> \o ExtractErrors(crypto.v)
                               \o <<Line("WARNING", "No crypto markets to store")>>
                               \o SuccessLines)
                /\ storeResult' = [how |-> "return", value |-> 0, commit |-> "none", env |-> "none"]
           ELSE /\ batch' = market_data_list
                /\ idx' = 1
                /\ stored_count' = 0
                /\ failed' = {}
                /\ session' = [open |-> TRUE, rows |-> db, pending |-> <<>>,
                               poisoned |-> FALSE]
                /\ dbBefore' = db
                /\ repeated' = (market_data_list = lastBatch)
                /\ storeResult' = storeResult
                /\ log' = log \o <<Line("INFO", "Filtered")>> \o ExtractErrors(crypto.v)
                /\ pc' = "store"
                /\ UNCHANGED returns
    /\ UNCHANGED <<cycles, attempt, events, fetchResult, lastBatch, db, now, faults>>

(* ------------------------------ store_markets -------------------------- *)
RecordError == Line("ERROR", "Error storing market")

\* does the iteration skip the record (`if not market_data: continue`)
Skipped(market_data) == ~Truthy(market_data)

\* does the query of the iteration run its autoflush (sessionmaker's default)
Autoflush == TRUE

\* one iteration of the loop over the batch
StoreRecord ==
    /\ UNCHANGED <<schedVars, monVars, filterVars>>
    /\ pc = "store"
    /\ idx <= Len(batch)
    /\ LET market_data == batch[idx]
           md == market_data.v
           flushed == IF Autoflush THEN Flush(session.rows, session.pending, now)
                      ELSE [ok |-> TRUE, rows |-> session.rows]
           unflushed == IF Autoflush THEN <<>> ELSE session.pending
           found == Lookup(flushed.rows, md.market_id)
           \* the handler of the inner try: log, continue
           caught == /\ log' = Append(log, RecordError)
                     /\ failed' = failed \cup {idx}
                     /\ stored_count' = stored_count
           done == /\ log' = log
                   /\ failed' = failed
                   /\ stored_count' = stored_count + 1
       IN  IF Skipped(market_data)
           THEN UNCHANGED <<session, stored_count, failed, log>>
           ELSE IF md.market_id.t = "absent"
           THEN \* KeyError before the query
                caught /\ session' = session
           ELSE IF session.poisoned
           THEN \* the query raises: a failed flush has rolled the transaction back
                caught /\ session' = session
           ELSE IF ~flushed.ok
           THEN \* the autoflush of the query raises IntegrityError
                /\ caught
                /\ session' = [session EXCEPT !.rows = dbBefore, !.pending = <<>>,
                                              !.poisoned = TRUE]
           ELSE IF found # {}
           THEN LET row == First(found)
                IN /\ session' = [session EXCEPT
                                      !.rows = (flushed.rows \ {row}) \cup {UpdateRow(row, md, now)},
                                      !.pending = unflushed]
                   /\ IF ReadBeforeKeyError(md, UpdateKeys) = Len(UpdateKeys)
                      THEN done ELSE caught
           ELSE IF ReadBeforeKeyError(md, InsertKeys) = Len(InsertKeys)
                THEN /\ session' = [session EXCEPT !.rows = flushed.rows,
                                                   !.pending = Append(unflushed, md)]
                     /\ done
                ELSE /\ session' = [session EXCEPT !.rows = flushed.rows,
                                                   !.pending = unflushed]
                     /\ caught
    /\ idx' = idx + 1
    /\ UNCHANGED <<pc, cycles, returns, attempt, events, fetchResult, batch,
                   storeResult, dbBefore, lastBatch, repeated, db, now, faults>>

\* session.commit(), the handler of its failure, session.close(), and the rest of the cycle
Commit ==
    /\ UNCHANGED <<schedVars, monVars, filterVars>>
    /\ pc = "store"
    /\ idx > Len(batch)
    /\ \E commit \in {"ok", "fails"}, rollback \in {"ok", "fails"} :
        LET flushed == Flush(session.rows, session.pending, now)
            raised == session.poisoned \/ ~flushed.ok \/ commit = "fails"
            how == IF raised /\ rollback = "fails" THEN "raise" ELSE "return"
            value == IF raised THEN 0 ELSE stored_count
        IN  \* ROLLBACK reaches the database only after a COMMIT that failed there
            /\ rollback = "fails" => (commit = "fails" /\ ~session.poisoned /\ flushed.ok)
            /\ LET n == (IF commit = "fails" THEN 1 ELSE 0) + (IF rollback = "fails" THEN 1 ELSE 0)
               IN faults + n <= MaxFaults /\ faults' = faults + n
            /\ db' = IF raised THEN db ELSE flushed.rows
            /\ lastBatch' = IF raised THEN lastBatch ELSE batch
            /\ storeResult' = [how |-> how, value |-> value,
                               commit |-> IF raised THEN "fails" ELSE "ok",
                               env |-> commit]
            /\ log' = log
                      \o (IF raised THEN <<Line("ERROR", "Database commit error")>>
                          ELSE <<Line("INFO", "Successfully stored/updated")>>)
                      \o (IF CycleValueAfterStore(how) THEN SuccessLines ELSE FatalLines)
            /\ returns' = Append(returns, CycleValueAfterStore(how))
    /\ session' = CloseSession(session)
    /\ pc' = "idle"
    /\ UNCHANGED <<cycles, attempt, events, fetchResult, batch, idx, stored_count,
                   failed, dbBefore, repeated, now>>

Next ==
    \/ StartCycle
    \/ AttemptOk
    \/ AttemptTransient
    \/ AttemptOther
    \/ ProcessFetched
    \/ StoreRecord
    \/ Commit

Spec == Init /\ [][Next]_vars

(* ------------------- schedule_pipeline and the on-demand run ----------- *)
\* schedule.every(15).minutes
EveryMinutes == 15
\* time.sleep(60)
SleepMinutes == 1

\* the processes that can run fetch_and_store_markets
Procs == {"scheduler", "on_demand"}
PhaseOf(p) == IF p = "scheduler" THEN sched.phase ELSE demand.phase
\* the processes inside fetch_and_store_markets
Active == {p \in Procs : PhaseOf(p) # "none"}
\* the processes whose store_markets holds an open session
Writers == {p \in Procs : PhaseOf(p) = "store"}

\* python -m src.data.data_fetcher: the job is registered, first due one interval from now
SchedulerStart ==
    /\ sched.pc = "off"
    /\ sched' = [pc |-> "run_pending", next_run |-> clock + EveryMinutes, wake |-> 0,
                 phase |-> "none", result |-> "none", signal |-> FALSE]
    /\ UNCHANGED <<clock, demand, pipelineVars, monVars, filterVars>>

\* schedule.run_pending(): call the job when it is due, else go on to time.sleep(60)
RunPending ==
    /\ sched.pc = "run_pending"
    /\ IF clock >= sched.next_run
       THEN sched' = [sched EXCEPT !.pc = "job", !.phase = "fetch"]
       ELSE sched' = [sched EXCEPT !.pc = "sleep", !.wake = clock + SleepMinutes]
    /\ UNCHANGED <<clock, demand, pipelineVars, monVars, filterVars>>

\* the scheduler's cycle reaches store_markets and opens its session
JobStore ==
    /\ sched.pc = "job" /\ sched.phase = "fetch"
    /\ sched' = [sched EXCEPT !.phase = "store"]
    /\ UNCHANGED <<clock, demand, pipelineVars, monVars, filterVars>>

\* the loop after a job that returned False, as if a failed cycle ended the scheduler
AfterJobExitsOnFailure(value) == IF value THEN "sleep" ELSE "exit"
\* where the loop goes once the job has returned `value`: fetch_and_store_markets turns
\* every Exception into the value False, so run_pending returns and time.sleep follows
AfterJob(value) == "sleep"

\* the job returns (early, or after store_markets; True, or False for a failed cycle):
\* the next run is one interval from now, run_pending returns and the loop sleeps
JobReturn ==
    /\ sched.pc = "job"
    /\ \E value \in BOOLEAN :
          sched' = [pc |-> AfterJob(value), next_run |-> clock + EveryMinutes,
                    wake |-> clock + SleepMinutes, phase |-> "none",
                    result |-> IF value THEN "ok" ELSE "failed", signal |-> FALSE]
    /\ UNCHANGED <<clock, demand, pipelineVars, monVars, filterVars>>

\* time.sleep(60) is over
Wake ==
    /\ sched.pc = "sleep"
    /\ clock >= sched.wake
    /\ sched' = [sched EXCEPT !.pc = "run_pending"]
    /\ UNCHANGED <<clock, demand, pipelineVars, monVars, filterVars>>

\* KeyboardInterrupt: the handler around the loop logs and schedule_pipeline returns
SchedulerStop ==
    /\ sched.pc \notin {"off", "exit"}
    /\ sched' = [sched EXCEPT !.pc = "exit", !.phase = "none", !.signal = TRUE]
    /\ UNCHANGED <<clock, demand, pipelineVars, monVars, filterVars>>

\* python test_data_pipeline.py: one call of fetch_and_store_markets in a process of its own
DemandStart ==
    /\ demand.pc = "off"
    /\ demand' = [pc |-> "cycle", phase |-> "fetch"]
    /\ UNCHANGED <<clock, sched, pipelineVars, monVars, filterVars>>

DemandStore ==
    /\ demand.pc = "cycle" /\ demand.phase = "fetch"
    /\ demand' = [demand EXCEPT !.phase = "store"]
    /\ UNCHANGED <<clock, sched, pipelineVars, monVars, filterVars>>

\* the call returns and the script ends; it can be run again
DemandReturn ==
    /\ demand.pc = "cycle"
    /\ demand' = NotRun
    /\ UNCHANGED <<clock, sched, pipelineVars, monVars, filterVars>>

\* a minute passes
Tick ==
    /\ clock < MaxClock
    /\ clock' = clock + 1
    /\ UNCHANGED <<sched, demand, pipelineVars, monVars, filterVars>>

SchedNext ==
    \/ SchedulerStart
    \/ RunPending
    \/ JobStore
    \/ JobReturn
    \/ Wake
    \/ SchedulerStop
    \/ DemandStart
    \/ DemandStore
    \/ DemandReturn
    \/ Tick

SchedSpec == Init /\ [][SchedNext]_vars

\* the scheduler's process keeps running and time keeps passing
SchedFairSpec == SchedSpec /\ WF_vars(Tick) /\ WF_vars(RunPending) /\ WF_vars(Wake)

(* ------------------------------- the monitor --------------------------- *)
\* get_log_summary: the two counters of its scan of the log
SuccessfulFetches ==
    Cardinality({i \in 1..Len(log) : log[i].msg = "Data fetch completed successfully"})
FailedFetches ==
    Cardinality({i \in 1..Len(log) : log[i].msg = "Fatal error in fetch_and_store_markets"})

(* ------------------------- what the claims speak of -------------------- *)
Requests == {i \in 1..Len(events) : events[i].kind = "request"}
Transient(e) == e.kind = "request" /\ e.outcome \in {"ConnectionError", "Timeout"}
FetchReturnedEmpty == fetchResult = [how |-> "return", value |-> <<>>]

\* a store_markets call has ended, and the cycle around it
StoreEnded == pc = "idle" /\ storeResult.env # "none"
\* the batch positions holding a record with a market_id
WithId == {i \in 1..Len(batch) : Truthy(batch[i]) /\ batch[i].v.market_id.t = "str"}
RowsOf(rows, key) == {r \in rows : r.market_id = key}

(* C5: fetch_markets issues at most MAX_RETRIES requests per call and its loop
   terminates: every step leaves at most 3 requests made in the call; while the
   call runs, `attempt` counts the requests made and stays below MAX_RETRIES; and
   every iteration either returns or increases `attempt`. *)
C5_AtMostMaxRetries ==
    [][/\ Cardinality(Requests)' <= 3
       /\ pc' = "fetch" => (attempt' = Cardinality(Requests)' /\ attempt' < 3)
       /\ pc = "fetch" => (pc' = "fetched" \/ (pc' = "fetch" /\ attempt' = attempt + 1))]_vars

C5_Witness ==
    pc = "fetched" /\ Cardinality(Requests) = 3 /\ events[Len(events)].outcome = "ok"

(* C6: a transient failure on attempt k < 2 is followed by a sleep of exactly 2^k
   and then by attempt k+1; nothing follows the last attempt; a sleep only follows
   a transient failure; and a call whose last request succeeds returns its body
   (so failure, failure, success sleeps 1 then 2 and returns the payload). *)
C6_ExponentialBackoff ==
    /\ \A i \in 1..Len(events) :
        /\ Transient(events[i]) =>
              IF events[i].attempt < 2
              THEN /\ i < Len(events)
                   /\ events[i + 1].kind = "sleep"
                   /\ events[i + 1].secs = 2 ^ events[i].attempt
                   /\ pc = "fetch" \/ i + 1 < Len(events)
                   /\ i + 1 < Len(events) =>
                         /\ events[i + 2].kind = "request"
                         /\ events[i + 2].attempt = events[i].attempt + 1
              ELSE i = Len(events)
        /\ events[i].kind = "sleep" => i > 1 /\ Transient(events[i - 1])
    /\ (Len(events) > 0 /\ events[Len(events)].outcome = "ok") =>
           fetchResult = [how |-> "return", value |-> events[Len(events)].body]

C6_Witness ==
    /\ Len(events) = 5
    /\ Transient(events[1]) /\ events[2].kind = "sleep" /\ events[2].secs = 1
    /\ Transient(events[3]) /\ events[4].kind = "sleep" /\ events[4].secs = 2
    /\ events[5].outcome = "ok"
    /\ fetchResult.how = "return" /\ Len(fetchResult.value) > 0

(* C7: when all three attempts fail with connection errors or timeouts, the call
   returns the empty list and raises nothing. *)
C7_ExhaustedReturnsEmpty ==
    (Cardinality(Requests) = 3 /\ \A i \in Requests : Transient(events[i]))
        => FetchReturnedEmpty

C7_Witness ==
    /\ Cardinality(Requests) = 3
    /\ \A i \in Requests : Transient(events[i])
    /\ \E i, j \in Requests : events[i].outcome # events[j].outcome
    /\ FetchReturnedEmpty

(* C8: an attempt that fails with anything but a connection error or a timeout is
   the last event of the call (no sleep, no further request) and the call returns
   the empty list; every request after the first follows a transient failure. *)
C8_OtherErrorAborts ==
    \A i \in Requests :
        /\ events[i].outcome = "Exception" => (i = Len(events) /\ FetchReturnedEmpty)
        /\ events[i].attempt > 0 => (i > 2 /\ Transient(events[i - 2]))

C8_Witness ==
    /\ Len(events) = 3
    /\ events[3].outcome = "Exception" /\ events[3].attempt = 1
    /\ FetchReturnedEmpty

(* C1: the table never holds two rows with one market_id; a batch that commits
   leaves, for every market_id in it, exactly one row, which is the row that was
   there before (same primary key and created_at) when there was one, refreshed
   at this cycle's time; and a batch of records that all carry a market_id does
   commit unless the database refuses the COMMIT, also when it names an id twice. *)
C1_OneRecordPerMarketId ==
    /\ \A r, q \in db : (r.market_id = q.market_id \/ r.id = q.id) => r = q
    /\ (StoreEnded /\ storeResult.commit = "ok") =>
          \A i \in WithId :
              /\ Cardinality(RowsOf(db, batch[i].v.market_id)) = 1
              /\ \A r \in RowsOf(db, batch[i].v.market_id) :
                    /\ r.updated_at = now
                    /\ \A old \in RowsOf(dbBefore, r.market_id) :
                          r.id = old.id /\ r.created_at = old.created_at
                    /\ RowsOf(dbBefore, r.market_id) = {} =>
                          (r.created_at = now /\ \A old \in dbBefore : old.id # r.id)
    /\ (StoreEnded /\ storeResult.env = "ok" /\ WithId = 1..Len(batch)) =>
          storeResult.commit = "ok"

\* one batch names market "a" twice, after an earlier cycle created it
C1_Witness ==
    /\ StoreEnded /\ storeResult.commit = "ok"
    /\ Len(batch) = 2 /\ batch[1].v.market_id = batch[2].v.market_id
    /\ dbBefore # {}
    /\ \E r \in db : /\ r.market_id = batch[2].v.market_id
                     /\ r.yes_price = batch[2].v.yes_price
                     /\ r.created_at < r.updated_at
    /\ Cardinality(db) = Cardinality(dbBefore)

(* C2 (as claimed): whenever the commit of store_markets fails, the table is what
   it was before the batch and store_markets returns 0. *)
C2_CommitFailureRollsBack ==
    (StoreEnded /\ storeResult.commit = "fails") =>
        (db = dbBefore /\ storeResult.how = "return" /\ storeResult.value = 0)

(* C3 (as claimed): a cycle whose batch commit failed returns False and its line
   in the run history is the failure line, not the success line. *)
C3_CommitFailureMarksCycleFailed ==
    (StoreEnded /\ storeResult.commit = "fails") =>
        /\ returns[Len(returns)] = FALSE
        /\ log[Len(log) - 1].msg = "Fatal error in fetch_and_store_markets"

(* C4 (as claimed): after n completed cycles get_log_summary counts n outcomes:
   successful_fetches + failed_fetches = n. *)
C4_EveryCycleCounted ==
    pc = "idle" => SuccessfulFetches + FailedFetches = Len(returns)

\* the payloads of the last fetch that pass the filter, normalize, and carry an id
GoodPayloads ==
    {i \in 1..Len(fetchResult.value) :
        /\ IsCrypto(fetchResult.value[i])
        /\ Truthy(extract_market_data(fetchResult.value[i]))
        /\ extract_market_data(fetchResult.value[i]).v.market_id.t = "str"}

(* C9 (as claimed): in a cycle whose COMMIT the database accepts, every crypto
   payload of the fetch that can be normalized and stored has its row committed
   at this cycle's time, whatever other payloads the same fetch carried. *)
C9_BadPayloadDoesNotAbortBatch ==
    (StoreEnded /\ storeResult.env = "ok") =>
        \A i \in GoodPayloads :
            \E r \in db : /\ r.market_id = fetchResult.value[i].id
                          /\ r.updated_at = now

(* C10 (as claimed): when an iteration of the loop of store_markets fails, every
   other record of the batch (one that carries a market_id and whose own
   iteration did not fail) is written and committed by the same call. *)
C10_RecordFailureDoesNotAbortRest ==
    (StoreEnded /\ storeResult.env = "ok" /\ failed # {}) =>
        \A i \in WithId \ failed :
            \E r \in db : r.market_id = batch[i].v.market_id /\ r.updated_at = now

(* C11 (as claimed): every store_markets call, whatever its batch and whatever the
   commit and the rollback do, ends by returning an integer count; none raises. *)
C11_StoreNeverRaises ==
    (pc = "idle" /\ storeResult.how # "none") =>
        (storeResult.how = "return" /\ storeResult.value \in Nat)

\* the last batch position that names the market_id of position i
LastOf(i) ==
    CHOOSE j \in WithId :
        /\ batch[j].v.market_id = batch[i].v.market_id
        /\ \A k \in WithId : batch[k].v.market_id = batch[i].v.market_id => k <= j

(* C12: when a committed batch names a market_id the table already held, the row
   of that market afterwards carries yes_price, no_price, volume, volume_24h,
   active, resolved and outcome of the (last) batch record with that id and
   updated_at of this cycle; it is the same row (primary key, market_id,
   question, description, created_at) and the only one with that market_id. *)
C12_UpdateOverwritesFields ==
    (StoreEnded /\ storeResult.commit = "ok") =>
        \A i \in WithId :
            \A old \in RowsOf(dbBefore, batch[i].v.market_id) :
                /\ Cardinality(RowsOf(db, old.market_id)) = 1
                /\ \A r \in RowsOf(db, old.market_id) :
                      LET md == batch[LastOf(i)].v
                      IN /\ r.yes_price = md.yes_price /\ r.no_price = md.no_price
                         /\ r.volume = md.volume /\ r.volume_24h = md.volume_24h
                         /\ r.active = md.active /\ r.resolved = md.resolved
                         /\ r.outcome = md.outcome
                         /\ r.updated_at = now /\ r.updated_at > old.updated_at
                         /\ r.id = old.id /\ r.question = old.question
                         /\ r.description = old.description
                         /\ r.created_at = old.created_at

\* a stored market comes back with other prices and another outcome
C12_Witness ==
    /\ StoreEnded /\ storeResult.commit = "ok"
    /\ \E i \in WithId : \E old \in RowsOf(dbBefore, batch[i].v.market_id) :
          \E r \in RowsOf(db, old.market_id) :
              /\ r.yes_price # old.yes_price /\ r.outcome # old.outcome
              /\ r.active # old.active /\ r.id = old.id

\* the columns the update branch writes
UpdatedColumns == {UpdateKeys[i] : i \in 1..Len(UpdateKeys)}

(* C13 (as claimed): an update never replaces a known value by an absent one: a
   column of a stored market that held a value before the batch still holds one
   after it, and holds the old one when this cycle's record has None there. *)
C13_AbsentFieldKeepsStoredValue ==
    StoreEnded =>
        \A old \in dbBefore : \A r \in RowsOf(db, old.market_id) :
            \A c \in UpdatedColumns :
                /\ old[c].t # "none" => r[c].t # "none"
                /\ \A i \in WithId :
                      (batch[i].v.market_id = old.market_id /\ batch[LastOf(i)].v[c].t = "none")
                          => r[c] = old[c]

\* the rows without the timestamp every reconciliation refreshes
WithoutStamp(rows) == {[c \in (DOMAIN r) \ {"updated_at"} |-> r[c]] : r \in rows}

(* C14 (as claimed): a store_markets call given the batch the last committed call
   was given leaves the table as that call left it (read in the claim's favour:
   the refreshed updated_at is not compared). *)
C14_SameBatchTwiceIsIdempotent ==
    (StoreEnded /\ repeated) => WithoutStamp(db) = WithoutStamp(dbBefore)

\* the first batch position that names the market_id of position i
FirstOf(i) ==
    CHOOSE j \in WithId :
        /\ batch[j].v.market_id = batch[i].v.market_id
        /\ \A k \in WithId : batch[k].v.market_id = batch[i].v.market_id => j <= k

(* C15: when a committed batch names a market_id the table did not hold, the table
   afterwards holds exactly one row for it, a new one (fresh primary key, created
   in this cycle) with market_id, question and description of the record that
   introduced it; when the batch names the id once, the row carries that
   record's prices, volumes and outcome, and active and resolved of the record,
   which are TRUE and FALSE whenever the fetched payload omits them or has null. *)
C15_InsertsNewRecordWithDefaults ==
    (StoreEnded /\ storeResult.commit = "ok") =>
        \A i \in WithId :
            RowsOf(dbBefore, batch[i].v.market_id) = {} =>
                /\ Cardinality(RowsOf(db, batch[i].v.market_id)) = 1
                /\ \A r \in RowsOf(db, batch[i].v.market_id) :
                      LET md == batch[FirstOf(i)].v
                      IN /\ r.question = md.question /\ r.description = md.description
                         /\ r.created_at = now
                         /\ \A old \in dbBefore : old.id # r.id
                         /\ FirstOf(i) = LastOf(i) =>
                               /\ r.yes_price = md.yes_price /\ r.no_price = md.no_price
                               /\ r.volume = md.volume /\ r.volume_24h = md.volume_24h
                               /\ r.outcome = md.outcome
                               /\ r.active = (IF md.active.t = "none" THEN Bool(TRUE) ELSE md.active)
                               /\ r.resolved = (IF md.resolved.t = "none" THEN Bool(FALSE)
                                                ELSE md.resolved)
                               /\ \A k \in GoodPayloads :
                                     LET p == fetchResult.value[k]
                                     IN p.id = md.market_id =>
                                           /\ p.active.t \in {"absent", "none"} => r.active = Bool(TRUE)
                                           /\ p.resolved.t \in {"absent", "none"} =>
                                                 r.resolved = Bool(FALSE)

\* a later cycle brings a market the table does not hold yet, one payload without
\* "active" and one with "active": null
C15_Witness ==
    /\ StoreEnded /\ storeResult.commit = "ok" /\ dbBefore # {}
    /\ \E k \in GoodPayloads :
          /\ fetchResult.value[k].active.t = "none"
          /\ RowsOf(dbBefore, fetchResult.value[k].id) = {}
          /\ \E r \in RowsOf(db, fetchResult.value[k].id) :
                r.active = Bool(TRUE) /\ r.resolved = Bool(FALSE) /\ r.created_at = now
    /\ \E k \in GoodPayloads : fetchResult.value[k].active.t = "absent"

\* the batch positions store_markets counted: not skipped, iteration not failed
Attempted == {i \in 1..Len(batch) : ~Skipped(batch[i])} \ failed

(* C16 (as claimed): a store_markets call whose commit succeeds returns the number
   of records it attempted to write, and one whose commit fails returns 0. *)
C16_ReturnsAttemptedCount ==
    StoreEnded =>
        /\ storeResult.how = "return"
        /\ storeResult.value =
              (IF storeResult.commit = "ok" THEN Cardinality(Attempted) ELSE 0)

(* C17: the updated_at stored for a market_id never decreases: every step leaves
   each market's row with an updated_at at least as late as before, and no
   row is ever stamped earlier than it was created. *)
C17_UpdatedAtNeverDecreases ==
    [][\A old \in db : \A r \in RowsOf(db', old.market_id) :
          r.updated_at >= old.updated_at /\ r.updated_at >= r.created_at]_vars

\* a market stored in one cycle was stamped again, later, by another
C17_Witness ==
    /\ pc = "idle" /\ cycles = 2
    /\ \E old \in dbBefore : \E r \in RowsOf(db, old.market_id) :
          old.updated_at = 1 /\ r.updated_at = 2

\* does the batch of the running store_markets call name this market_id
InBatch(key) == \E i \in WithId : batch[i].v.market_id = key

(* C18: a stored row's updated_at changes exactly when a batch that names its
   market_id commits: the step that commits a batch stamps the rows of the ids it
   names with this cycle's time, which differs from their old stamp, and leaves
   every other row as it was; new rows are rows of ids the batch names; and every
   other step, a commit that fails and is rolled back included, leaves the table
   as it was. *)
C18_UpdatedAtChangesIffTouched ==
    [][IF pc = "store" /\ pc' = "idle" /\ storeResult'.commit = "ok"
       THEN /\ \A old \in db :
                  IF InBatch(old.market_id)
                  THEN \A r \in RowsOf(db', old.market_id) :
                           r.updated_at = now /\ r.updated_at # old.updated_at
                  ELSE old \in db'
            /\ \A r \in db' : RowsOf(db, r.market_id) = {} => InBatch(r.market_id)
       ELSE db' = db]_vars

\* a committed batch named one stored market and not the other
C18_Witness ==
    /\ StoreEnded /\ storeResult.commit = "ok"
    /\ \E old \in dbBefore : ~InBatch(old.market_id) /\ old \in db
    /\ \E old \in dbBefore : InBatch(old.market_id) /\ old \notin db

\* the market_ids the table holds
StoredIds(rows) == {r.market_id : r \in rows}

(* C19: the pipeline deletes nothing: no step, of a cycle that succeeds, fails or
   is rolled back, takes a market_id (or a row's primary key) out of the table. *)
C19_NeverDeletes ==
    [][/\ StoredIds(db) \subseteq StoredIds(db')
       /\ {r.id : r \in db} \subseteq {r.id : r \in db'}]_vars

\* a cycle added a market to a table that held another, which is still there
C19_Witness ==
    /\ StoreEnded /\ storeResult.commit = "ok"
    /\ dbBefore # {}
    /\ StoredIds(dbBefore) \subseteq StoredIds(db)
    /\ StoredIds(db) # StoredIds(dbBefore)

(* C20 (as claimed): at any time at most one process is inside a pipeline cycle,
   scheduled or run on demand, and at most one holds an open store session. *)
C20_SingleActiveCycle ==
    Cardinality(Active) <= 1 /\ Cardinality(Writers) <= 1

(* ------------------------- the operator's stop signal ------------------ *)
\* session.close() without a commit, as if the transaction's writes were kept
CloseKeepsWrites(committed, s) == IF s.open THEN s.rows ELSE committed
\* session.close() in the `finally` of store_markets: the transaction that was not
\* committed is rolled back, the table is the committed one
Close(committed, s) == committed

\* KeyboardInterrupt raised in the scheduler's process, wherever it stands. It is no
\* Exception: no handler of the cycle catches it, the `finally` of store_markets closes
\* the session, and the handler in schedule_pipeline logs and leaves the loop.
Interrupt ==
    /\ UNCHANGED <<schedVars, monVars, filterVars>>
    /\ pc # "stopped"
    /\ pc' = "stopped"
    /\ db' = Close(db, session)
    /\ session' = CloseSession(session)
    /\ storeResult' = IF pc = "store"
                      THEN [how |-> "interrupt", value |-> stored_count,
                            commit |-> "none", env |-> "none"]
                      ELSE storeResult
    /\ log' = Append(log, Line("INFO", "Pipeline scheduler stopped by user"))
    /\ UNCHANGED <<cycles, returns, attempt, events, fetchResult, batch, idx, stored_count,
                   failed, dbBefore, lastBatch, repeated, now, faults>>

\* the scheduler's process with an operator who may stop it
StopNext ==
    \/ StartCycle
    \/ AttemptOk
    \/ AttemptTransient
    \/ AttemptOther
    \/ ProcessFetched
    \/ StoreRecord
    \/ Commit
    \/ Interrupt

StopSpec == Init /\ [][StopNext]_vars

\* every record of the batch that names a market is in the table as this cycle wrote it
BatchCommitted ==
    \A i \in WithId : \E r \in db : r.market_id = batch[i].v.market_id /\ r.updated_at = now

(* C21: a stop signal never leaves the store half-committed, and the scheduler exits.
   The step that delivers the signal closes the session and leaves the committed table
   as it was; that table is the one from before the cycle's batch or holds the whole
   batch; a signal arriving inside store_markets leaves the table from before the
   batch; and the stopped process takes no further step. *)
C21_StopNeverHalfCommits ==
    [][/\ pc # "stopped"
       /\ pc' = "stopped" =>
            /\ session' = NoSession
            /\ db' = db
            /\ db' = dbBefore \/ BatchCommitted'
            /\ pc = "store" => db' = dbBefore]_vars

\* the signal arrived inside store_markets after an insert had been flushed
C21_Witness ==
    /\ pc = "stopped"
    /\ storeResult.how = "interrupt"
    /\ storeResult.value >= 1
    /\ idx >= 3
    /\ db = dbBefore
    /\ \E i \in 1..(idx - 2) : i \in WithId /\ RowsOf(dbBefore, batch[i].v.market_id) = {}

(* C22: while no stop signal arrives the scheduler triggers a cycle every interval,
   whatever earlier cycles returned. A job that returns, True or False, leaves the
   scheduler sleeping with the next run one interval (15 minutes) later; a job starts
   only once that time has come; the scheduler exits only on a stop signal; and a
   scheduler sleeping after a job, failed or not, starts the next job unless a stop
   signal arrives (as far as the modelled clock reaches). *)
C22_NextCycleAfterFailure ==
    /\ [][(sched.pc = "job" /\ sched'.pc # "job" /\ ~sched'.signal) =>
              (sched'.pc = "sleep" /\ sched'.next_run = clock + EveryMinutes)]_vars
    /\ [][(sched.pc # "job" /\ sched'.pc = "job") => clock >= sched.next_run]_vars
    /\ [][sched'.pc = "exit" => sched'.signal]_vars
    /\ \A r \in {"ok", "failed"} :
          (sched.pc = "sleep" /\ sched.result = r /\ sched.next_run <= MaxClock)
              ~> (sched.pc = "job" \/ sched.signal)

\* the second job runs after the first one failed
C22_Witness ==
    /\ sched.pc = "job"
    /\ sched.result = "failed"
    /\ ~sched.signal
    /\ clock >= 2 * EveryMinutes

(* ------------------------------ monitor.py ----------------------------- *)
\* datetime.utcnow() as the monitor reads it
Utcnow == now + wall

\* a monitor query as if it read the rows of the pipeline's open transaction
MonitorViewInFlight(committed, s) == IF s.open THEN s.rows ELSE committed
\* the rows a query of the monitor reads: PipelineMonitor has a Database, an engine and
\* sessions of its own, and SQLite shows another connection committed data only
MonitorView(committed, s) == committed

\* a query session as if loading the rows touched them
QueriedTouches(rows) == {[r EXCEPT !.updated_at = r.updated_at + 1] : r \in rows}
\* the table after a query session of the monitor: query, then close; nothing is
\* added, changed or committed
Queried(rows) == rows

\* get_last_update_time: updated_at of the first row by updated_at descending, or None
get_last_update_time(rows) ==
    IF rows = {} THEN NoneV
    ELSE Num(CHOOSE t \in {r.updated_at : r \in rows} : \A r \in rows : r.updated_at <= t)

\* timedelta(minutes=20) and timedelta(hours=1), in minutes
FreshMinutes == 20
StaleMinutes == 60

\* get_data_freshness with the two limits counted into the younger class
get_data_freshness_inclusive(rows, t) ==
    LET last_update == get_last_update_time(rows)
        age == t - last_update.v
    IN IF last_update = NoneV THEN [age |-> NoneV, status |-> "No data in database"]
       ELSE [age |-> Num(age),
             status |-> IF age <= FreshMinutes THEN "FRESH"
                        ELSE IF age <= StaleMinutes THEN "STALE" ELSE "VERY STALE"]

\* get_data_freshness, reading the table as `rows` and the clock as t
get_data_freshness(rows, t) ==
    LET last_update == get_last_update_time(rows)
        age == t - last_update.v
    IN IF last_update = NoneV THEN [age |-> NoneV, status |-> "No data in database"]
       ELSE [age |-> Num(age),
             status |-> IF age < FreshMinutes THEN "FRESH"
                        ELSE IF age < StaleMinutes THEN "STALE" ELSE "VERY STALE"]

\* get_market_stats runs four count queries, in this order
StatsFields == <<"total", "active", "resolved", "crypto">>
StatsQuery(rows, field) ==
    CASE field = "active" -> Cardinality({r \in rows : r.active = Bool(TRUE)})
      [] field = "resolved" -> Cardinality({r \in rows : r.resolved = Bool(TRUE)})
      [] OTHER -> Cardinality(rows)

\* os.path.exists(self.log_file): the file is there once the pipeline has logged
LogFileExists == log # <<>>

\* str(n)
RECURSIVE NatText(_)
NatText(n) ==
    IF n < 10 THEN <<Digits[n + 1]>> ELSE NatText(n \div 10) \o <<Digits[(n % 10) + 1]>>

\* f"{(successful / (successful + failed) * 100):.1f}%": one decimal, ties to even
RateText(successful, failures) ==
    LET n == successful + failures
        q == (1000 * successful) \div n
        r == (1000 * successful) % n
        tenths == IF 2 * r > n \/ (2 * r = n /\ q % 2 = 1) THEN q + 1 ELSE q
    IN NatText(tenths \div 10) \o <<".", Digits[(tenths % 10) + 1], "%">>

NotApplicable == Str(<<"N", "/", "A">>)

\* get_log_summary: without a log file the dict has no 'success_rate' key
get_log_summary ==
    IF ~LogFileExists THEN NoSummary
    ELSE [total_fetches |-> SuccessfulFetches + FailedFetches,
          successful_fetches |-> SuccessfulFetches,
          failed_fetches |-> FailedFetches,
          success_rate |-> IF SuccessfulFetches + FailedFetches > 0
                           THEN Str(RateText(SuccessfulFetches, FailedFetches))
                           ELSE NotApplicable]

\* f.readlines()[-100:]
ScannedLines == 100
\* seq[-n:] for n > 0
LastN(seq, n) == IF Len(seq) <= n THEN seq ELSE SubSeq(seq, Len(seq) - n + 1, Len(seq))
\* 'ERROR' in line or 'WARNING' in line: the level name is part of every formatted line
IsIssue(line) == line.level \in {"ERROR", "WARNING"}

\* get_recent_errors(lines)
get_recent_errors(lines) ==
    IF ~LogFileExists THEN <<>>
    ELSE LastN(SelectSeq(LastN(log, ScannedLines), IsIssue), lines)

\* the SYSTEM STATUS line of print_status: the local last_update, the clock read twice
StatusLabel(last_update, t1, t2) ==
    IF last_update # NoneV /\ t1 - last_update.v < FreshMinutes THEN "RUNNING NORMALLY"
    ELSE IF last_update # NoneV /\ t2 - last_update.v < StaleMinutes
    THEN "RUNNING BUT DATA IS STALE"
    ELSE "NOT UPDATING"

\* what a step of the monitor leaves alone; `reads` says whether it runs a query session
MonFrame(reads) ==
    /\ db' = IF reads THEN Queried(db) ELSE db
    /\ UNCHANGED <<processVars, log, schedVars, filterVars, wall>>

\* python src/data/monitor.py: main() builds the monitor and calls print_status
MonitorStart ==
    /\ mon.pc = "off"
    /\ mon' = [NoReport EXCEPT !.pc = "last_update"]
    /\ MonFrame(FALSE)

\* print_status: last_update = self.get_last_update_time()
PsLastUpdate ==
    /\ mon.pc = "last_update"
    /\ LET view == MonitorView(db, session)
       IN mon' = [mon EXCEPT !.pc = "freshness",
                             !.last_update = get_last_update_time(view)]
    /\ MonFrame(TRUE)

\* print_status: `if last_update:` the freshness is read anew, else "No data updates yet"
PsFreshness ==
    /\ mon.pc = "freshness"
    /\ LET view == MonitorView(db, session)
       IN IF mon.last_update # NoneV
          THEN mon' = [mon EXCEPT !.pc = "stats",
                                  !.freshness = get_data_freshness(view, Utcnow)]
          ELSE mon' = [mon EXCEPT !.pc = "stats",
                                  !.freshness = [age |-> NoneV,
                                                 status |-> "No data updates yet"]]
    /\ MonFrame(mon.last_update # NoneV)

\* get_market_stats, for print_status and for export_status_json: the next count query
MonStats ==
    /\ mon.pc \in {"stats", "x_stats"}
    /\ LET view == MonitorView(db, session)
           field == StatsFields[mon.q + 1]
           count == StatsQuery(view, field)
           last == mon.q + 1 = Len(StatsFields)
       IN IF mon.pc = "stats"
          THEN mon' = [mon EXCEPT !.stats[field] = count,
                                  !.q = IF last THEN 0 ELSE mon.q + 1,
                                  !.pc = IF last THEN "log_summary" ELSE "stats"]
          ELSE mon' = [mon EXCEPT !.snapshot.market_stats[field] = count,
                                  !.q = IF last THEN 0 ELSE mon.q + 1,
                                  !.pc = IF last THEN "x_log_summary" ELSE "x_stats"]
    /\ MonFrame(TRUE)

\* print_status: the performance part; log_summary['success_rate'] raises KeyError when
\* the key is missing, and main ends with the traceback
PsLogSummary ==
    /\ mon.pc = "log_summary"
    /\ mon' = [mon EXCEPT !.log_summary = get_log_summary,
                          !.pc = IF get_log_summary.success_rate = Absent
                                 THEN "crashed" ELSE "errors"]
    /\ MonFrame(FALSE)

\* print_status: errors = self.get_recent_errors(5)
PsErrors ==
    /\ mon.pc = "errors"
    /\ mon' = [mon EXCEPT !.errors = get_recent_errors(5), !.pc = "label"]
    /\ MonFrame(FALSE)

\* print_status: the SYSTEM STATUS line; print_status returns
PsLabel ==
    /\ mon.pc = "label"
    /\ mon' = [mon EXCEPT !.label = StatusLabel(mon.last_update, Utcnow, Utcnow),
                          !.pc = "x_last_update"]
    /\ MonFrame(FALSE)

\* export_status_json: last_update = self.get_last_update_time()
ExLastUpdate ==
    /\ mon.pc = "x_last_update"
    /\ LET view == MonitorView(db, session)
       IN mon' = [mon EXCEPT !.pc = "x_freshness",
                             !.snapshot.last_update = get_last_update_time(view)]
    /\ MonFrame(TRUE)

\* export_status_json: age, status = self.get_data_freshness(); an age of zero is
\* written as null (`if age`)
ExFreshness ==
    /\ mon.pc = "x_freshness"
    /\ LET view == MonitorView(db, session)
           fresh == get_data_freshness(view, Utcnow)
       IN mon' = [mon EXCEPT
                     !.pc = "x_stats",
                     !.snapshot.data_freshness =
                         [age_minutes |-> IF Truthy(fresh.age) THEN fresh.age ELSE NoneV,
                          status |-> fresh.status]]
    /\ MonFrame(TRUE)

\* export_status_json: 'pipeline_performance': self.get_log_summary(), then json.dump
ExLogSummary ==
    /\ mon.pc = "x_log_summary"
    /\ mon' = [mon EXCEPT !.snapshot.pipeline_performance = get_log_summary, !.pc = "done"]
    /\ MonFrame(FALSE)

\* is the step one of the monitor's
MonitorStep == mon' # mon

\* a step of the pipeline while the monitor has not ended, none of them a failure of
\* the network or of the database
BesideMonitor ==
    /\ mon.pc \notin {"done", "crashed"}
    /\ faults' = faults
    /\ \/ StartCycle
       \/ AttemptOk
       \/ ProcessFetched
       \/ StoreRecord
       \/ Commit

\* the monitor beside a running pipeline, on a network that answers
MonNext ==
    \/ BesideMonitor
    \/ MonitorStart
    \/ PsLastUpdate
    \/ PsFreshness
    \/ MonStats
    \/ PsLogSummary
    \/ PsErrors
    \/ PsLabel
    \/ ExLastUpdate
    \/ ExFreshness
    \/ ExLogSummary

MonSpec == Init /\ [][MonNext]_vars

(* ---------------- the monitor on a store and a history at rest --------- *)
\* the log of a cycle that fetched one crypto market and stored it
QuietCycleLog ==
    <<Banner, Line("INFO", "Starting market data fetch..."),
      Line("INFO", "Fetching markets from Polymarket"), Line("INFO", "Successfully fetched"),
      Line("INFO", "Filtered"), Line("INFO", "Successfully stored/updated")>> \o SuccessLines
\* the log of a cycle whose three requests all met a ConnectionError
ExhaustedCycleLog ==
    <<Banner, Line("INFO", "Starting market data fetch..."),
      Line("INFO", "Fetching markets from Polymarket"), TransientWarning("ConnectionError")>>
    \o RetryLines("ConnectionError")
    \o <<Line("INFO", "Fetching markets from Polymarket"), TransientWarning("ConnectionError")>>
    \o RetryLines("ConnectionError")
    \o <<Line("INFO", "Fetching markets from Polymarket"), TransientWarning("ConnectionError"),
         ExhaustedError("ConnectionError"),
         Line("WARNING", "No markets fetched from Polymarket")>>
\* the log of a cycle whose commit and rollback both failed
FatalCycleLog ==
    <<Banner, Line("INFO", "Starting market data fetch..."),
      Line("INFO", "Fetching markets from Polymarket"), Line("INFO", "Successfully fetched"),
      Line("INFO", "Filtered"), Line("ERROR", "Database commit error")>> \o FatalLines

RECURSIVE Repeat(_, _)
Repeat(lines, n) == IF n = 0 THEN <<>> ELSE lines \o Repeat(lines, n - 1)

\* the log file after f fatal cycles, e cycles without an answer and q quiet cycles
History(f, e, q) ==
    Repeat(FatalCycleLog, f) \o Repeat(ExhaustedCycleLog, e) \o Repeat(QuietCycleLog, q)
Histories ==
    {History(f, e, q) : f \in 0..MaxFailedCycles, e \in 0..1, q \in 0..MaxQuietCycles}

\* the table after a first cycle (at time 1) stored P_btc and P_eth, and after a second
\* cycle (at time 2) updated P_eth
AfterFirstCycle ==
    Flush({}, <<extract_market_data(P_btc).v, extract_market_data(P_eth).v>>, 1).rows
AfterSecondCycle ==
    {IF r.market_id = P_eth.id THEN UpdateRow(r, extract_market_data(P_eth).v, 2) ELSE r :
        r \in AfterFirstCycle}
\* the tables earlier cycles left, each with the time of the last cycle
Stores == {[rows |-> {}, at |-> 1], [rows |-> AfterFirstCycle, at |-> 1],
           [rows |-> AfterSecondCycle, at |-> 2]}

\* minutes since the last cycle: the ages the freshness classes turn on
Elapsed == {0, 5, 19, 20, 45, 59, 60, 180}

\* the scheduler is down; the table and the log file are as earlier cycles left them
ReportInit ==
    /\ NotRunning
    /\ filterArg = <<>>
    /\ extractArg = Blank
    /\ \E store \in Stores : db = store.rows /\ now = store.at
    /\ log \in Histories
    /\ wall \in Elapsed
    /\ wall = 0 \/ log = QuietCycleLog

\* time passes, also between two statements of the monitor
Pass ==
    /\ \E t \in Elapsed :
          /\ t > wall
          /\ \A u \in Elapsed : u > wall => t <= u
          /\ wall' = t
    /\ UNCHANGED <<pipelineVars, schedVars, filterVars, mon>>

ReportNext ==
    \/ MonitorStart
    \/ PsLastUpdate
    \/ PsFreshness
    \/ MonStats
    \/ PsLogSummary
    \/ PsErrors
    \/ PsLabel
    \/ ExLastUpdate
    \/ ExFreshness
    \/ ExLogSummary
    \/ Pass

ReportSpec == ReportInit /\ [][ReportNext]_vars

(* ----------------------- the claims on the monitor --------------------- *)
\* the committed table as it was before the batch in flight, or as it is when no batch
\* is in flight
CommittedTable == IF session.open THEN dbBefore ELSE db
\* a batch is in flight and the table of its transaction differs from the committed one
PartOfBatchWritten == pc = "store" /\ session.open /\ session.rows # dbBefore

(* C23: a monitor read beside a reconciliation in flight sees the table from before the
   batch or the table after its commit, never rows of the open transaction. While a
   session of store_markets is open the committed table is the one from before the
   batch, and every query of the monitor (last update, freshness, each of the counts,
   for the report and for the snapshot) returns what that committed table gives. *)
C23_ReadsSeeCommittedTableOnly ==
    [][/\ session.open => db = dbBefore
       /\ (mon.pc = "last_update" /\ MonitorStep) =>
              mon'.last_update = get_last_update_time(CommittedTable)
       /\ (mon.pc = "freshness" /\ MonitorStep /\ mon.last_update # NoneV) =>
              mon'.freshness = get_data_freshness(CommittedTable, Utcnow)
       /\ (mon.pc = "stats" /\ MonitorStep) =>
              mon'.stats[StatsFields[mon.q + 1]]
                  = StatsQuery(CommittedTable, StatsFields[mon.q + 1])
       /\ (mon.pc = "x_last_update" /\ MonitorStep) =>
              mon'.snapshot.last_update = get_last_update_time(CommittedTable)
       /\ (mon.pc = "x_freshness" /\ MonitorStep) =>
              mon'.snapshot.data_freshness.status
                  = get_data_freshness(CommittedTable, Utcnow).status
       /\ (mon.pc = "x_stats" /\ MonitorStep) =>
              mon'.snapshot.market_stats[StatsFields[mon.q + 1]]
                  = StatsQuery(CommittedTable, StatsFields[mon.q + 1])]_vars

\* the monitor has counted the rows while a batch with a flushed insert was in flight
C23_Witness ==
    /\ PartOfBatchWritten
    /\ Cardinality(session.rows) > Cardinality(dbBefore)
    /\ mon.pc = "stats" /\ mon.q >= 1
    /\ mon.stats.total = Cardinality(dbBefore)
    /\ mon.last_update = get_last_update_time(dbBefore)

\* the freshness line of the report, in the words of get_data_freshness
ReportedStatus ==
    IF mon.freshness.status = "No data updates yet" THEN "No data in database"
    ELSE mon.freshness.status

(* C24 (as claimed): the report and the snapshot never disagree: once main has printed
   the one and written the other, both hold the same last update, the same freshness
   class, the same counts and the same performance figures. *)
C24_ReportAndSnapshotAgree ==
    mon.pc = "done" =>
        /\ mon.snapshot.last_update = mon.last_update
        /\ mon.snapshot.data_freshness.status = ReportedStatus
        /\ mon.snapshot.market_stats = mon.stats
        /\ mon.snapshot.pipeline_performance = mon.log_summary

\* the age, at time t, of the most recently updated row of a table that has rows
NewestAge(rows, t) ==
    t - (CHOOSE u \in {r.updated_at : r \in rows} : \A r \in rows : r.updated_at <= u)
\* the class the claim gives an age; "No data in database" is what the code calls UNKNOWN
ClassOfAge(age) ==
    CASE age < 20 -> "FRESH"
      [] age >= 20 /\ age < 60 -> "STALE"
      [] age >= 60 -> "VERY STALE"
\* the freshness a call made in this step returned
FreshnessRead ==
    IF mon.pc = "freshness" THEN mon'.freshness
    ELSE [age |-> IF mon'.snapshot.data_freshness.age_minutes = NoneV /\ db # {}
                  THEN Num(0) ELSE mon'.snapshot.data_freshness.age_minutes,
          status |-> mon'.snapshot.data_freshness.status]

(* C25: get_data_freshness classifies by the age of the most recently updated record:
   FRESH below 20 minutes, STALE from 20 minutes to below an hour, VERY STALE from an
   hour on, and "No data in database" for an empty table; so 5 minutes give FRESH, 45
   STALE, 180 VERY STALE, and the limits 20 and 60 give STALE and VERY STALE. Stated of
   every call the monitor makes, for the report and for the snapshot. *)
C25_FreshnessClassifiesByAge ==
    [][((mon.pc = "freshness" /\ mon.last_update # NoneV) \/ mon.pc = "x_freshness")
         /\ MonitorStep =>
          IF db = {}
          THEN FreshnessRead = [age |-> NoneV, status |-> "No data in database"]
          ELSE LET age == NewestAge(db, Utcnow)
               IN /\ FreshnessRead = [age |-> Num(age), status |-> ClassOfAge(age)]
                  /\ age = 5 => FreshnessRead.status = "FRESH"
                  /\ age = 45 => FreshnessRead.status = "STALE"
                  /\ age = 180 => FreshnessRead.status = "VERY STALE"
                  /\ age = 20 => FreshnessRead.status = "STALE"
                  /\ age = 60 => FreshnessRead.status = "VERY STALE"]_vars

\* one run of the monitor read the freshness at the first limit and, later, at the second
C25_Witness ==
    /\ mon.pc = "done"
    /\ Cardinality(db) = 2
    /\ mon.freshness = [age |-> Num(20), status |-> "STALE"]
    /\ mon.snapshot.data_freshness = [age_minutes |-> Num(60), status |-> "VERY STALE"]

(* C26 (as claimed): in every report the status label agrees with the freshness shown:
   RUNNING NORMALLY exactly with FRESH, RUNNING BUT DATA IS STALE exactly with STALE,
   NOT UPDATING exactly with VERY STALE or no data. *)
C26_LabelAgreesWithFreshness ==
    mon.label # "none" =>
        /\ mon.label = "RUNNING NORMALLY" <=> ReportedStatus = "FRESH"
        /\ mon.label = "RUNNING BUT DATA IS STALE" <=> ReportedStatus = "STALE"
        /\ mon.label = "NOT UPDATING"
               <=> ReportedStatus \in {"VERY STALE", "No data in database"}

\* has print_status, has export_status_json, got past its performance part
ReportHasPerformance ==
    mon.pc \in {"errors", "label", "x_last_update", "x_freshness", "x_stats",
                "x_log_summary", "done"}
SnapshotHasPerformance == mon.pc = "done"
\* the rate the claim gives for s successful and f failed cycles counted in the history
ClaimedRate(s, f) ==
    IF s + f = 0 THEN NotApplicable
    ELSE IF s = 8 /\ f = 2 THEN Str(<<"8", "0", ".", "0", "%">>)
    ELSE Str(RateText(s, f))

(* C27 (as claimed): the performance part of the monitor never faults; it reports
   s/(s+f) as a percentage (8 and 2 give 80.0%), and "N/A" when no run has occurred,
   for an empty and for a missing log file, in get_log_summary and in the report. *)
C27_PerformanceNeverFaults ==
    /\ mon.pc # "crashed"
    /\ ReportHasPerformance =>
          mon.log_summary.success_rate
              = ClaimedRate(mon.log_summary.successful_fetches, mon.log_summary.failed_fetches)
    /\ SnapshotHasPerformance =>
          mon.snapshot.pipeline_performance.success_rate
              = ClaimedRate(mon.snapshot.pipeline_performance.successful_fetches,
                            mon.snapshot.pipeline_performance.failed_fetches)

(* C28: the monitor is a pure read: no step of print_status or export_status_json, with
   the calls of get_last_update_time, get_data_freshness, get_market_stats,
   get_recent_errors and get_log_summary they make, changes a stored row or the log,
   also while a cycle is running beside it. *)
C28_MonitorIsPureRead ==
    [][MonitorStep => (db' = db /\ log' = log /\ session' = session)]_vars

\* the monitor has run to its end on a table with rows and a log with lines
C28_Witness ==
    /\ mon.pc = "done"
    /\ db # {}
    /\ log # <<>>
    /\ mon.stats.total = Cardinality(db)
    /\ mon.snapshot.market_stats.total = Cardinality(db)

\* every warning and error entry of the log file, in log order
AllIssues == SelectSeq(log, IsIssue)

(* C29 (as claimed): the recent issues of a report are the 5 most recent warning/error
   entries of the whole run history, in log order; exactly 5 when the history holds at
   least 5. *)
C29_RecentIssuesOfWholeHistory ==
    mon.pc \in {"label", "x_last_update", "x_freshness", "x_stats", "x_log_summary", "done"} =>
        /\ mon.errors = LastN(AllIssues, 5)
        /\ Len(AllIssues) >= 5 => Len(mon.errors) = 5

(* -------------------- filter_crypto_markets on its own ----------------- *)
\* a keyword inside a longer word, in capitals
P_solid ==
    [Blank EXCEPT !.id = Str(<<"d">>), !.question = Str(<<"S", "O", "L", "I", "D">>)]
\* "question": null
P_nullq == [Blank EXCEPT !.id = Str(<<"e">>), !.question = NoneV]
\* no "question" key
P_noq == [Blank EXCEPT !.id = Str(<<"f">>)]
\* "question": ""
P_emptyq == [Blank EXCEPT !.id = Str(<<"g">>), !.question = Str(<<>>)]

FilterPayloads == {P_btc, P_btc2, P_eth, P_rain, P_noid, P_solid, P_nullq, P_noq, P_emptyq}

RECURSIVE SeqsUpTo(_, _)
SeqsUpTo(S, n) ==
    IF n = 0 THEN {<<>>}
    ELSE SeqsUpTo(S, n - 1) \cup {Append(xs, x) : xs \in SeqsUpTo(S, n - 1), x \in S}

\* a fetcher is given a list of payloads
FilterInit ==
    /\ NotRunning
    /\ db = {}
    /\ log = <<>>
    /\ now = 0
    /\ wall = 0
    /\ filterArg \in SeqsUpTo(FilterPayloads, MaxMarkets)
    /\ extractArg = Blank

\* fetcher.filter_crypto_markets(markets): it returns the list or raises
CallFilter ==
    /\ filtered.how = "none"
    /\ LET crypto == filter_crypto_markets(filterArg)
       IN filtered' = [how |-> IF crypto.ok THEN "return" ELSE "raise", value |-> crypto.v]
    /\ UNCHANGED <<pipelineVars, schedVars, monVars, filterArg, extractArg, extracted>>

FilterNext == CallFilter

FilterSpec == FilterInit /\ [][FilterNext]_vars

\* letters that are equal when case is ignored
SameLetter(a, b) == LowerChar(a) = LowerChar(b)
\* the keyword stands in the text at position i, case ignored
KeywordAt(text, keyword, i) ==
    /\ i + Len(keyword) - 1 <= Len(text)
    /\ \A j \in 1..Len(keyword) : SameLetter(text[i + j - 1], keyword[j])
\* the payload has a question text that contains a keyword of the fixed set
HasKeyword(market) ==
    /\ market.question.t = "str"
    /\ \E k \in 1..Len(CRYPTO_KEYWORDS), i \in 1..Len(market.question.v) :
          KeywordAt(market.question.v, CRYPTO_KEYWORDS[k], i)
Included(market) == \E k \in 1..Len(filtered.value) : filtered.value[k] = market

(* C30 (as claimed): filter_crypto_markets includes a payload of its input if and only
   if the payload's question contains, case ignored, a keyword of the fixed set: every
   call returns, and the payloads it returns are those with a keyword. *)
C30_IncludedIffKeyword ==
    filtered.how # "none" =>
        /\ filtered.how = "return"
        /\ \A i \in 1..Len(filterArg) : Included(filterArg[i]) <=> HasKeyword(filterArg[i])

\* the payload has no question text: the key is missing, null or the empty string
NoQuestionText(market) ==
    \/ market.question.t \in {"absent", "none"}
    \/ market.question.t = "str" /\ Len(market.question.v) = 0

(* C31 (as claimed): a payload with no question text (key missing, null or empty) is
   never matched and is silently excluded: the call does not fault on it and still
   returns the matching payloads of the rest of the input. *)
C31_NoQuestionIsExcludedSilently ==
    (filtered.how # "none" /\ \E i \in 1..Len(filterArg) : NoQuestionText(filterArg[i])) =>
        /\ filtered.how = "return"
        /\ \A i \in 1..Len(filterArg) :
              /\ NoQuestionText(filterArg[i]) => ~Included(filterArg[i])
              /\ HasKeyword(filterArg[i]) => Included(filterArg[i])

\* out is a subsequence of inp: its entries are entries of inp, unaltered, at increasing
\* positions
IsSubsequence(out, inp) ==
    \E at \in [1..Len(out) -> 1..Len(inp)] :
        /\ \A k \in 1..Len(out) : out[k] = inp[at[k]]
        /\ \A k \in 1..Len(out), m \in 1..Len(out) : k < m => at[k] < at[m]

(* C32: whenever filter_crypto_markets returns, its output is a subsequence of its
   input: the matching payloads in input order, none duplicated or altered; the output
   is the selection of the input by the keyword test, so it is fixed by the input. *)
C32_OutputIsSubsequence ==
    filtered.how = "return" =>
        /\ IsSubsequence(filtered.value, filterArg)
        /\ filtered.value = SelectSeq(filterArg, HasKeyword)

\* a call returned two different payloads of a two-payload input
C32_Witness ==
    /\ filtered.how = "return"
    /\ Len(filterArg) = 2
    /\ Len(filtered.value) = 2
    /\ filtered.value[1] # filtered.value[2]

(* -------------------- extract_market_data on its own ------------------- *)
\* outcomePrices values: missing, null, lists, JSON texts of lists and of scalars, and
\* texts that are no JSON
PriceInputs ==
    { Absent, NoneV, List(<<>>), List(<<Num(7), Num(3)>>), List(<<Num(7)>>),
      List(<<Str(<<"a">>), Num(3)>>), List(<<Num(7), NoneV>>),
      Str(<<"[", Quote, "6", Quote, ",", Quote, "4", Quote, "]">>),
      Str(<<"[", Quote, "6", Quote, "]">>),
      Str(<<"[", Quote, "a", Quote, ",", Quote, "4", Quote, "]">>),
      Str(<<"[", "]">>), Str(<<"5">>), Str(<<"x">>), Str(<<"[", "6", ",">>) }
\* volume and volume24h values: missing, null, numbers, numeric and other texts
VolumeInputs == { Absent, NoneV, Num(0), Num(5), Str(<<"1", "2">>), Str(<<"x">>), Str(<<>>) }

ExtractPayloads ==
    { [Blank EXCEPT !.id = Str(<<"a">>), !.question = Str(<<"b", "t", "c">>),
                    !.outcomePrices = prices, !.volume = vol, !.volume24h = v24,
                    !.active = flags.active, !.resolved = flags.resolved,
                    !.outcome = flags.outcome] :
        prices \in PriceInputs, vol \in VolumeInputs, v24 \in VolumeInputs,
        flags \in { [active |-> Absent, resolved |-> Absent, outcome |-> Absent],
                    [active |-> Bool(FALSE), resolved |-> Bool(TRUE), outcome |-> Str(<<"Y">>)] } }

\* a fetcher is given one payload
ExtractInit ==
    /\ NotRunning
    /\ db = {}
    /\ log = <<>>
    /\ now = 0
    /\ wall = 0
    /\ filterArg = <<>>
    /\ extractArg \in ExtractPayloads

\* fetcher.extract_market_data(market): the dict or None
CallExtract ==
    /\ extracted.how = "none"
    /\ extracted' = [how |-> "return", value |-> extract_market_data(extractArg)]
    /\ UNCHANGED <<pipelineVars, schedVars, monVars, filterArg, filtered, extractArg>>

ExtractNext == CallExtract

ExtractSpec == ExtractInit /\ [][ExtractNext]_vars

\* the outcomePrices value is a text that json.loads rejects
PricesNotJson(market) ==
    market.outcomePrices.t = "str" /\ ~JsonLoads(market.outcomePrices.v).ok
\* the value is missing, or float() converts it
Convertible(x) == x.t = "absent" \/ Float(x).ok
\* what the claims call the usual value of a volume: the number, 0 when there is none
UsualVolume(x) == IF x.t # "absent" /\ Float(x).ok THEN Num(Float(x).v) ELSE Num(0)
\* the fields of the record other than prices and volumes follow the payload
OtherFieldsAsUsual(record, market) ==
    /\ record.market_id = Get(market, "id", NoneV)
    /\ record.question = market.question
    /\ record.active = Get(market, "active", Bool(TRUE))
    /\ record.resolved = Get(market, "resolved", Bool(FALSE))
    /\ record.outcome = Get(market, "outcome", NoneV)

\* float() accepts both volumes of the payload, or they are missing or falsy
VolumesConvert(market) == VolumeOf(market, "volume").ok /\ VolumeOf(market, "volume24h").ok

(* C33: a payload whose outcomePrices is a text that is no valid JSON, its volumes being
   numeric or missing, gives a non-null record with both prices absent and market_id,
   question, volumes, active, resolved and outcome as usual: the call does not fault. *)
C33_BadJsonPricesGiveRecord ==
    (extracted.how # "none" /\ PricesNotJson(extractArg) /\ VolumesConvert(extractArg)) =>
        /\ extracted.value.t = "dict"
        /\ extracted.value.v.yes_price = NoneV
        /\ extracted.value.v.no_price = NoneV
        /\ extracted.value.v.volume = UsualVolume(extractArg.volume)
        /\ extracted.value.v.volume_24h = UsualVolume(extractArg.volume24h)
        /\ OtherFieldsAsUsual(extracted.value.v, extractArg)

\* the text "x" for prices, "12" for the volume, flags given: a record came back
C33_Witness ==
    /\ extracted.how = "return"
    /\ extractArg.outcomePrices = Str(<<"x">>)
    /\ extractArg.volume = Str(<<"1", "2">>)
    /\ extractArg.resolved = Bool(TRUE)
    /\ extracted.value.t = "dict"
    /\ extracted.value.v.yes_price = NoneV
    /\ extracted.value.v.volume = Num(12)
    /\ extracted.value.v.resolved = Bool(TRUE)

\* the price the claim gives position i (0 or 1) of the parsed outcomePrices: the number,
\* absent when the parsed value is no list, is too short or holds no number there
ClaimedPrice(market, i) ==
    LET prices == ParsedPrices(market)
    IN IF prices.t = "list" /\ Len(prices.v) > i /\ Float(prices.v[i + 1]).ok
       THEN Num(Float(prices.v[i + 1]).v)
       ELSE NoneV

(* C34 (as claimed): yes_price / no_price are positions 0 / 1 of the parsed prices when
   present and convertible to a number; when a position is missing or not convertible,
   or the parsed value is no pair, that price is absent and the record is still
   returned. Stated for payloads whose volumes are numeric or missing. *)
C34_UnusablePriceIsAbsent ==
    (extracted.how # "none" /\ VolumesConvert(extractArg)) =>
        /\ extracted.value.t = "dict"
        /\ extracted.value.v.yes_price = ClaimedPrice(extractArg, 0)
        /\ extracted.value.v.no_price = ClaimedPrice(extractArg, 1)

\* float() accepts the prices of the payload, or there are none
PricesConvert(market) ==
    PriceAt(ParsedPrices(market), 0).ok /\ PriceAt(ParsedPrices(market), 1).ok

(* C35 (as claimed): volume and volume_24h are 0 whenever the source value is absent or
   not numeric, the number otherwise, and the record is still returned with its other
   fields. Stated for payloads whose prices are numeric or missing. *)
C35_UnusableVolumeIsZero ==
    (extracted.how # "none" /\ PricesConvert(extractArg)) =>
        /\ extracted.value.t = "dict"
        /\ extracted.value.v.volume = UsualVolume(extractArg.volume)
        /\ extracted.value.v.volume_24h = UsualVolume(extractArg.volume24h)
        /\ OtherFieldsAsUsual(extracted.value.v, extractArg)

(* ------------------------- end to end, one cycle ----------------------- *)
\* the first cycle on the empty store has ended, its fetch returned payloads and the
\* database refused nothing
FirstCycleStored ==
    /\ cycles = 1
    /\ pc = "idle"
    /\ Len(returns) = 1
    /\ fetchResult.how = "return"
    /\ Len(fetchResult.value) > 0
    /\ storeResult.env # "fails"
\* the fetched payloads whose question holds a keyword
Matching == {i \in 1..Len(fetchResult.value) : HasKeyword(fetchResult.value[i])}
\* the ids they carry
MatchingIds == {fetchResult.value[i].id : i \in {j \in Matching : fetchResult.value[j].id.t = "str"}}
\* the payloads of the fetch that carry the id
Naming(key) == {i \in 1..Len(fetchResult.value) : fetchResult.value[i].id = key}

(* C36 (as claimed): after one cycle on an empty store whose fetch returns payloads, the
   stored market_ids are exactly the ids of the payloads whose question matches a
   keyword, each row has updated_at of the cycle's run time, and active = true and
   resolved = false where its payload omits them. *)
C36_EndToEndStoresMatching ==
    FirstCycleStored =>
        /\ StoredIds(db) = MatchingIds
        /\ \A r \in db :
              /\ r.updated_at = now
              /\ \A i \in Naming(r.market_id) :
                    Cardinality(Naming(r.market_id)) = 1 =>
                        /\ fetchResult.value[i].active.t = "absent" => r.active = Bool(TRUE)
                        /\ fetchResult.value[i].resolved.t = "absent" => r.resolved = Bool(FALSE)

(* C37 (as claimed): in every reachable state of the store, a row has a non-null
   outcome only if its resolved flag is true. *)
C37_OutcomeOnlyWhenResolved ==
    \A r \in db : r.outcome # NoneV => r.resolved = Bool(TRUE)

(* C38 (as claimed): resolved is terminal: no step of a pipeline cycle takes a stored
   row whose resolved flag is true to resolved = false. *)
C38_ResolvedIsTerminal ==
    [][\A old \in db : old.resolved = Bool(TRUE) =>
           \A r \in RowsOf(db', old.market_id) : r.resolved = Bool(TRUE)]_vars

\* fetch_markets returned no markets, or markets none of which has a keyword
NothingToStore ==
    /\ fetchResult.how = "return"
    /\ \A i \in 1..Len(fetchResult.value) : /\ fetchResult.value[i].question.t \in {"str", "absent"}
                                            /\ ~HasKeyword(fetchResult.value[i])

(* C39: when fetch_markets returns no markets, or the filter selects none, the cycle
   returns False without opening a store session and the store is the same before and
   after the cycle: the step that handles such a fetch ends the cycle with False, no
   session, no call of store_markets and the table untouched, and no step of a cycle
   before its store_markets call touches the table or opens a session. *)
C39_NothingToStoreFailsUntouched ==
    [][/\ (pc = "fetched" /\ NothingToStore) =>
              /\ pc' = "idle"
              /\ returns' = Append(returns, FALSE)
              /\ session' = NoSession
              /\ storeResult' = NoStore
              /\ db' = db
       /\ (pc \in {"idle", "fetch"}) => (db' = db /\ session' = NoSession)]_vars

\* a second cycle found a stored table and fetched only a payload without a keyword
C39_Witness ==
    /\ pc = "idle"
    /\ cycles = 2
    /\ Len(returns) = 2
    /\ returns[2] = FALSE
    /\ fetchResult = [how |-> "return", value |-> <<P_rain>>]
    /\ db # {}
    /\ session = NoSession

\* store_markets is running: between get_session() and the end of its `finally`
InStoreMarkets == pc = "store"

(* C40: every session store_markets opens is closed before the call returns, on every
   path (commit, a record that failed, a commit that failed and was rolled back, a
   rollback that raised, an interruption): a session is open only while store_markets
   runs, and every step that leaves store_markets leaves the session closed. *)
C40_SessionClosedOnEveryPath ==
    [][/\ session'.open => InStoreMarkets'
       /\ (InStoreMarkets /\ ~InStoreMarkets') => (session.open /\ session' = NoSession)]_vars

\* the operator stopped a store_markets call that had a failed record behind it
C40_Witness ==
    /\ pc = "stopped"
    /\ storeResult.how = "interrupt"
    /\ failed # {}
    /\ ~session.open

====
